---- MODULE Spec2Model ----
(***************************************************************************)
(* A model of the FAF5-Analysis scripts: the lifecycle-emission tools of   *)
(* source/LCATools.py and the survey histograms of source/AnalyzeVius.py.  *)
(*                                                                         *)
(* Numbers.  The code computes in floating point; the model computes the   *)
(* same expressions exactly.  A quotient is a normalised rational          *)
(* <<numerator, denominator>>.  A table (pandas DataFrame read from a csv) *)
(* is a sequence of rows, each row a function from column names to values. *)
(* A survey cell that may be missing (NaN) is a set holding at most one    *)
(* number, so that every comparison with a missing cell is false as it is  *)
(* in pandas.                                                              *)
(***************************************************************************)
EXTENDS Integers, Sequences, FiniteSets, TLC

VARIABLES
    call,         \* the invocation: the function called and its arguments
    pc,           \* "call" before the function body has run, "done" after
    ret,          \* what the function returned (or computed before raising)
    raised,       \* the exception that ended the call, or NoException
    stdout,       \* the messages printed by the call
    saved,        \* the files written by the call (plt.savefig)
    df_lca_dict,  \* LCATools.df_lca_dict: mode -> commodity -> table
    disk          \* what the call reads from disk and from InfoObjects

vars == <<call, pc, ret, raised, stdout, saved, df_lca_dict, disk>>

(***************************************************************************)
(* Bounds of the model.                                                    *)
(***************************************************************************)
MaxRows == 2        \* rows (pollutants) of a GREET csv
MaxVal == 1         \* largest emission value in a GREET csv
MaxClasses == 2     \* length of the lists given to the weighted average
MaxWeight == 2      \* largest numerator of a class weight
WeightDen == 2      \* the weights are multiples of 1/WeightDen
MaxDiv == 2         \* largest payload, mpg or mpg-times-payload value
MaxFaf == 2         \* length of a 'FAF5' list of the commodity map

None == "None"
NoException == "NoException"

(***************************************************************************)
(* Exact arithmetic on rationals <<n, d>> with d > 0.                      *)
(***************************************************************************)
Abs(x) == IF x < 0 THEN -x ELSE x

RECURSIVE GCD(_, _)
GCD(a, b) == IF b = 0 THEN a ELSE GCD(b, a % b)

Rat(n, d) ==
    LET s == IF d < 0 THEN -1 ELSE 1
        g == GCD(Abs(n), Abs(d))
    IN  IF n = 0 THEN <<0, 1>> ELSE <<(s * n) \div g, (s * d) \div g>>

RatInt(k) == <<k, 1>>
RatAdd(x, y) == Rat(x[1] * y[2] + y[1] * x[2], x[2] * y[2])
RatMul(x, y) == Rat(x[1] * y[1], x[2] * y[2])
RatDiv(x, y) == Rat(x[1] * y[2], x[2] * y[1])

RECURSIVE RatSum(_)
RatSum(s) == IF s = <<>> THEN <<0, 1>> ELSE RatAdd(s[1], RatSum(Tail(s)))

(***************************************************************************)
(* Tables.                                                                 *)
(***************************************************************************)
CO2 == "CO2 (w/ C in VOC & CO)"
LifecycleColumns == <<"WTP", "PTW", "WTW">>

Columns(df) == IF df = <<>> THEN {} ELSE DOMAIN df[1]

\* df.rename(columns={old: new}); a missing column is ignored
Rename(df, old, new) ==
    [i \in DOMAIN df |->
        IF old \in DOMAIN df[i]
        THEN [c \in (DOMAIN df[i] \ {old}) \cup {new} |->
                 IF c = new THEN df[i][old] ELSE df[i][c]]
        ELSE df[i]]

\* df.drop(cols, axis=1)
Drop(df, cols) ==
    [i \in DOMAIN df |-> [c \in DOMAIN df[i] \ cols |-> df[i][c]]]

\* df[col] = values, for a new or an existing column
SetColumn(df, col, values) ==
    [i \in DOMAIN df |->
        [c \in DOMAIN df[i] \cup {col} |-> IF c = col THEN values[i] ELSE df[i][c]]]

(***************************************************************************)
(* LCATools.readGreetWtwTruck                                              *)
(***************************************************************************)
readGreetWtwTruck_NoDrop(csv) ==
    LET r1 == Rename(csv, "Vehicle Operation", "PTW")
        r2 == Rename(r1, "Total", "WTW")
        WTPof == [i \in DOMAIN r2 |-> r2[i]["Feedstock"] + r2[i]["Fuel"]]
    IN  SetColumn(r2, "WTP", WTPof)

readGreetWtwTruck_SwapStages(csv) ==
    LET r1 == Rename(csv, "Vehicle Operation", "WTW")
        r2 == Rename(r1, "Total", "PTW")
        WTPof == [i \in DOMAIN r2 |-> r2[i]["Feedstock"] + r2[i]["Fuel"]]
        r3 == SetColumn(r2, "WTP", WTPof)
    IN  Drop(r3, {"Feedstock", "Fuel"})

readGreetWtwTruck(csv) ==
    LET r1 == Rename(csv, "Vehicle Operation", "PTW")
        r2 == Rename(r1, "Total", "WTW")
        WTPof == [i \in DOMAIN r2 |-> r2[i]["Feedstock"] + r2[i]["Fuel"]]
        r3 == SetColumn(r2, "WTP", WTPof)
    IN  Drop(r3, {"Feedstock", "Fuel"})

(***************************************************************************)
(* LCATools.get_aggregated_commodity.  FAF5_VIUS_commodity_map is a        *)
(* sequence of entries [name, FAF5] in the iteration order of the dict.    *)
(***************************************************************************)
Range(s) == {s[i] : i \in DOMAIN s}

MatchingEntries(map, faf5_commodity) ==
    {i \in DOMAIN map : faf5_commodity \in Range(map[i].FAF5)}

Min(S) == CHOOSE x \in S : \A y \in S : x <= y
Max(S) == CHOOSE x \in S : \A y \in S : x >= y

NotFoundMessage(faf5_commodity) ==
    <<"Could not find FAF5 commodity", faf5_commodity, "in FAF5_VIUS_commodity_map">>

get_aggregated_commodity_Last(map, faf5_commodity) ==
    LET hits == MatchingEntries(map, faf5_commodity)
    IN  IF hits # {}
        THEN [value |-> map[Max(hits)].name, printed |-> <<>>]
        ELSE [value |-> None, printed |-> <<NotFoundMessage(faf5_commodity)>>]

get_aggregated_commodity(map, faf5_commodity) ==
    LET hits == MatchingEntries(map, faf5_commodity)
    IN  IF hits # {}
        THEN [value |-> map[Min(hits)].name, printed |-> <<>>]
        ELSE [value |-> None, printed |-> <<NotFoundMessage(faf5_commodity)>>]

(***************************************************************************)
(* LCATools.calculate_df_lca_weighted_average.  An optional argument       *)
(* (df_lcas_1mpg, payloads, mpgs) is a set: {} for None, {list} otherwise. *)
(* Subscripting None raises TypeError.                                     *)
(***************************************************************************)
The(opt) == CHOOSE x \in opt : TRUE

\* the argument object a (class, column) term of the loop body reads
TermReads(normalize_by_payload, use_vius_mpg) ==
    IF normalize_by_payload /\ ~use_vius_mpg THEN {"df_lcas_greet_mpg", "weights", "payloads"}
    ELSE IF use_vius_mpg /\ ~normalize_by_payload THEN {"df_lcas_1mpg", "weights", "mpgs"}
    ELSE IF use_vius_mpg /\ normalize_by_payload
         THEN {"df_lcas_1mpg", "weights", "payloads", "mpgs"}
    ELSE {"df_lcas_greet_mpg", "weights"}

WeightedTerm_AlwaysGreet(a, i_class, row, column) ==
    IF a.normalize_by_payload /\ ~a.use_vius_mpg
    THEN RatDiv(RatMul(RatInt(a.df_lcas_greet_mpg[i_class][row][column]), a.weights[i_class]),
                RatInt(The(a.payloads)[i_class]))
    ELSE IF a.use_vius_mpg /\ ~a.normalize_by_payload
    THEN RatDiv(RatMul(RatInt(a.df_lcas_greet_mpg[i_class][row][column]), a.weights[i_class]),
                RatInt(The(a.mpgs)[i_class]))
    ELSE IF a.use_vius_mpg /\ a.normalize_by_payload
    THEN RatDiv(RatMul(RatInt(a.df_lcas_greet_mpg[i_class][row][column]), a.weights[i_class]),
                RatInt(The(a.payloads)[i_class] * The(a.mpgs)[i_class]))
    ELSE RatMul(RatInt(a.df_lcas_greet_mpg[i_class][row][column]), a.weights[i_class])

WeightedTerm(a, i_class, row, column) ==
    IF a.normalize_by_payload /\ ~a.use_vius_mpg
    THEN RatDiv(RatMul(RatInt(a.df_lcas_greet_mpg[i_class][row][column]), a.weights[i_class]),
                RatInt(The(a.payloads)[i_class]))
    ELSE IF a.use_vius_mpg /\ ~a.normalize_by_payload
    THEN RatDiv(RatMul(RatInt(The(a.df_lcas_1mpg)[i_class][row][column]), a.weights[i_class]),
                RatInt(The(a.mpgs)[i_class]))
    ELSE IF a.use_vius_mpg /\ a.normalize_by_payload
    THEN RatDiv(RatMul(RatInt(The(a.df_lcas_1mpg)[i_class][row][column]), a.weights[i_class]),
                RatInt(The(a.payloads)[i_class] * The(a.mpgs)[i_class]))
    ELSE RatMul(RatInt(a.df_lcas_greet_mpg[i_class][row][column]), a.weights[i_class])

\* TRUE when the loop body subscripts an argument that is None
WeightedAverageRaises(a) ==
    \E x \in TermReads(a.normalize_by_payload, a.use_vius_mpg)
                \cap {"df_lcas_1mpg", "payloads", "mpgs"} : a[x] = {}

calculate_df_lca_weighted_average(a) ==
    LET first == a.df_lcas_greet_mpg[1]
        Accumulated(row, column) ==
            RatSum([i_class \in DOMAIN a.df_lcas_greet_mpg |->
                       WeightedTerm(a, i_class, row, column)])
    IN  [row \in DOMAIN first |->
            [c \in DOMAIN first[row] |->
                IF c \in Range(LifecycleColumns)
                THEN Accumulated(row, c)
                ELSE first[row][c]]]

(***************************************************************************)
(* LCATools.calculate_emission_intensity_using_mpg_times_payload.          *)
(* df_mpg_times_payload is one column of mpg_times_payload.csv: its entry  *)
(* 0 is the value and its entry 1 the uncertainty (a sequence here, the    *)
(* label 0 being the first element).                                       *)
(***************************************************************************)
calculate_emission_intensity_TimesPayload(df_lca_1mpg, df_mpg_times_payload) ==
    LET Intensity(row, c) == RatMul(RatInt(df_lca_1mpg[row][c]), RatInt(df_mpg_times_payload[1]))
        Unc(row, c) == RatDiv(RatMul(Intensity(row, c), RatInt(df_mpg_times_payload[2])),
                              RatInt(df_mpg_times_payload[1]))
        Fill(f(_, _)) ==
            [row \in DOMAIN df_lca_1mpg |->
                [c \in DOMAIN df_lca_1mpg[row] |->
                    IF c \in Range(LifecycleColumns) THEN f(row, c) ELSE df_lca_1mpg[row][c]]]
    IN  <<Fill(Intensity), Fill(Unc)>>

calculate_emission_intensity_using_mpg_times_payload(df_lca_1mpg, df_mpg_times_payload) ==
    LET Intensity(row, c) == RatDiv(RatInt(df_lca_1mpg[row][c]), RatInt(df_mpg_times_payload[1]))
        Unc(row, c) == RatDiv(RatMul(Intensity(row, c), RatInt(df_mpg_times_payload[2])),
                              RatInt(df_mpg_times_payload[1]))
        Fill(f(_, _)) ==
            [row \in DOMAIN df_lca_1mpg |->
                [c \in DOMAIN df_lca_1mpg[row] |->
                    IF c \in Range(LifecycleColumns) THEN f(row, c) ELSE df_lca_1mpg[row][c]]]
    IN  <<Fill(Intensity), Fill(Unc)>>

(***************************************************************************)
(* LCATools.plot_truck_emissions_per_class.  files maps a GREET class to   *)
(* the content of data/GREET_LCA/truck_<class>_diesel_wtw.csv.             *)
(* float(series) raises TypeError unless exactly one row is the CO2 row.   *)
(***************************************************************************)
GreetClasses == <<"Heavy GVW", "Medium GVW", "Light GVW">>

\* df[column][df["Item"] == item], as the sequence of the matching values
Lookup(df, column, item) ==
    LET F[i \in 0..Len(df)] ==
            IF i = 0 THEN <<>>
            ELSE IF df[i]["Item"] = item THEN Append(F[i - 1], df[i][column]) ELSE F[i - 1]
    IN  F[Len(df)]

Co2Rows(files) ==
    [k \in DOMAIN GreetClasses |->
        Lookup(readGreetWtwTruck(files[GreetClasses[k]]), "Item", CO2)]

plot_truck_emissions_per_class(files) ==
    LET df_lca(k) == readGreetWtwTruck(files[GreetClasses[k]])
    IN  [class |-> GreetClasses,
         WTP |-> [k \in DOMAIN GreetClasses |-> Lookup(df_lca(k), "WTP", CO2)[1]],
         PTW |-> [k \in DOMAIN GreetClasses |-> Lookup(df_lca(k), "PTW", CO2)[1]],
         WTW |-> [k \in DOMAIN GreetClasses |-> Lookup(df_lca(k), "WTP", CO2)[1]]]

(***************************************************************************)
(* LCATools.readGreetWthShip.  A converted emission is kept symbolically:  *)
(* a quantity is a sum of terms n * (1/1e6)^u[1] * (1/TONNES_TO_TONS)^u[2] *)
(* * (1/KM_TO_MILES)^u[3], so that applying a factor is never the          *)
(* identity and quantities converted differently stay different.  A row    *)
(* that pandas cannot align (the tables differ in length) is NaN.          *)
(***************************************************************************)
NaNQ == [nan |-> TRUE, terms |-> {}]
Raw(n) == [nan |-> FALSE,
           terms |-> IF n = 0 THEN {} ELSE {[u |-> <<0, 0, 0>>, n |-> n]}]

Units(q) == {t.u : t \in q.terms}
Coef(q, u) == IF u \in Units(q) THEN (CHOOSE t \in q.terms : t.u = u).n ELSE 0

AddQ(x, y) ==
    IF x.nan \/ y.nan THEN NaNQ
    ELSE [nan |-> FALSE,
          terms |-> {t \in {[u |-> u, n |-> Coef(x, u) + Coef(y, u)] :
                                u \in Units(x) \cup Units(y)} : t.n # 0}]

Times(q, du) ==
    [nan |-> q.nan,
     terms |-> {[u |-> <<t.u[1] + du[1], t.u[2] + du[2], t.u[3] + du[3]>>, n |-> t.n] :
                   t \in q.terms}]

PerMillion(q) == Times(q, <<1, 0, 0>>)         \* * (1.0 / 1e6)
PerTonnesToTons(q) == Times(q, <<0, 1, 0>>)    \* * (1.0 / TONNES_TO_TONS)
PerKmToMiles(q) == Times(q, <<0, 0, 1>>)       \* * (1.0 / KM_TO_MILES)

ConvertTrip(csv) ==
    [i \in DOMAIN csv |->
        [csv[i] EXCEPT !["Trip"] = PerKmToMiles(PerTonnesToTons(PerMillion(Raw(@))))]]

ConvertTrip_NoMiles(csv) ==
    [i \in DOMAIN csv |->
        [csv[i] EXCEPT !["Trip"] = PerTonnesToTons(PerMillion(Raw(@)))]]

\* series[i] when the label i exists, NaN otherwise (index alignment)
Aligned(df, i) == IF i \in DOMAIN df THEN df[i]["Trip"] ELSE NaNQ

readGreetWthShip_CombustionKm(csv_feedstock, csv_conversion, csv_combustion) ==
    LET df_lca_feedstock == ConvertTrip(csv_feedstock)
        df_lca_conversion == ConvertTrip(csv_conversion)
        df_lca_combustion == ConvertTrip_NoMiles(csv_combustion)
        WTP(i) == AddQ(df_lca_feedstock[i]["Trip"], Aligned(df_lca_conversion, i))
        PTH(i) == Aligned(df_lca_combustion, i)
    IN  [i \in DOMAIN df_lca_feedstock |->
            [Item |-> df_lca_feedstock[i]["Item"],
             WTP |-> WTP(i),
             PTH |-> PTH(i),
             WTH |-> AddQ(WTP(i), PTH(i))]]

readGreetWthShip(csv_feedstock, csv_conversion, csv_combustion) ==
    LET df_lca_feedstock == ConvertTrip(csv_feedstock)
        df_lca_conversion == ConvertTrip(csv_conversion)
        df_lca_combustion == ConvertTrip(csv_combustion)
        WTP(i) == AddQ(df_lca_feedstock[i]["Trip"], Aligned(df_lca_conversion, i))
        PTH(i) == Aligned(df_lca_combustion, i)
    IN  [i \in DOMAIN df_lca_feedstock |->
            [Item |-> df_lca_feedstock[i]["Item"],
             WTP |-> WTP(i),
             PTH |-> PTH(i),
             WTH |-> AddQ(WTP(i), PTH(i))]]

\* LCATools.readGreetWtwRail returns the csv as read
readGreetWtwRail(csv) == csv

(***************************************************************************)
(* LCATools.evaluateGreetWtwTruck_by_mpg_times_payload and fillLcaDf.      *)
(* env holds what the functions read from disk and from InfoObjects:       *)
(*   env.map                FAF5_VIUS_commodity_map                        *)
(*   env.mpg_times_payload  mpg_times_payload.csv, column name -> column   *)
(*   env.truck_1mpg         truck_heavy_gvw_diesel_1mpg_wtw.csv            *)
(*   env.rail               rail_freight_diesel_wtw.csv                    *)
(*   env.ship               the three marine_msd_mdo_05sulfur_wth csv      *)
(* Selecting a column the csv does not have (None included) is a KeyError. *)
(***************************************************************************)
evaluateGreetWtwTruck_by_mpg_times_payload(env, faf5_commodity) ==
    LET found == IF faf5_commodity = "all"
                 THEN [value |-> "all", printed |-> <<>>]
                 ELSE get_aggregated_commodity(env.map, faf5_commodity)
        aggregated_commodity == found.value
        df_lca_1mpg == readGreetWtwTruck(env.truck_1mpg)
    IN  IF aggregated_commodity \in DOMAIN env.mpg_times_payload
        THEN [raised |-> NoException, printed |-> found.printed,
              value |-> calculate_emission_intensity_using_mpg_times_payload(
                            df_lca_1mpg, env.mpg_times_payload[aggregated_commodity])]
        ELSE [raised |-> "KeyError", printed |-> found.printed, value |-> <<>>]

\* d[k] = v on a dict kept as a function
Put(d, k, v) == [x \in DOMAIN d \cup {k} |-> IF x = k THEN v ELSE d[x]]

fillLcaDf_Reset(df_dict, env, commodity) ==
    LET truck == evaluateGreetWtwTruck_by_mpg_times_payload(env, commodity)
        Only(v) == [x \in {commodity} |-> v]
    IN  IF truck.raised # NoException
        THEN [raised |-> truck.raised, printed |-> truck.printed, df_dict |-> df_dict]
        ELSE [raised |-> NoException, printed |-> truck.printed,
              df_dict |->
                 [truck |-> Only(truck.value[1]),
                  rail |-> Only(readGreetWtwRail(env.rail)),
                  ship |-> Only(readGreetWthShip(env.ship.feedstock, env.ship.conversion,
                                                 env.ship.combustion))]]

fillLcaDf(df_dict, env, commodity) ==
    LET truck == evaluateGreetWtwTruck_by_mpg_times_payload(env, commodity)
    IN  IF truck.raised # NoException
        THEN [raised |-> truck.raised, printed |-> truck.printed, df_dict |-> df_dict]
        ELSE [raised |-> NoException, printed |-> truck.printed,
              df_dict |->
                 [truck |-> Put(df_dict.truck, commodity, truck.value[1]),
                  rail |-> Put(df_dict.rail, commodity, readGreetWtwRail(env.rail)),
                  ship |-> Put(df_dict.ship, commodity,
                               readGreetWthShip(env.ship.feedstock, env.ship.conversion,
                                                env.ship.combustion))]]

(***************************************************************************)
(* The inputs of the LCATools functions.                                   *)
(***************************************************************************)
ItemName(j) == IF j = 1 THEN CO2 ELSE IF j = 2 THEN "CH4" ELSE ToString(j)

RawRow(item, feedstock, fuel, operation, total) ==
    ("Item" :> item) @@ ("Feedstock" :> feedstock) @@ ("Fuel" :> fuel)
        @@ ("Vehicle Operation" :> operation) @@ ("Total" :> total)

\* GREET truck csv files: the four stage values of the first row are free,
\* those of row i are the first row's shifted by multiples of i - 1
RawTruckCsvSet ==
    {[i \in 1..n |-> RawRow(ItemName(i), v[1] + (i - 1), v[2] + 2 * (i - 1),
                                         v[3] + 3 * (i - 1), v[4] + 4 * (i - 1))] :
        n \in 1..MaxRows, v \in [1..4 -> 0..MaxVal]}

\* a GREET truck csv of MaxRows pollutants whose stage values all differ;
\* the CO2 row is the first row, or the last one when reversed
CatalogueCsv(a, reversed) ==
    [i \in 1..MaxRows |->
        LET j == IF reversed THEN MaxRows + 1 - i ELSE i
        IN  RawRow(ItemName(j), a, j, a + j + 1, 2 * a + 2 * j + 1)]

CatalogueCsvSet == {CatalogueCsv(a, r) : a \in 0..MaxVal, r \in BOOLEAN}

\* the tables of n GREET classes, each read from its own csv
TableList(n, a) == [i \in 1..n |-> readGreetWtwTruck(CatalogueCsv(a + i - 1, FALSE))]
TableLists(n) == {TableList(n, a) : a \in 0..MaxVal}

\* the payloads or mpgs of n GREET classes, all different
PerClassValues(n) == {[i \in 1..n |-> p + i - 1] : p \in 1..MaxDiv}

AggNames == {"agg1", "agg2"}
Faf5Names == {"c1", "c2"}
Faf5Lists == UNION {[1..n -> Faf5Names] : n \in 0..MaxFaf}
MapSet ==
    {<<>>}
    \cup {<<[name |-> a, FAF5 |-> l]>> : a \in AggNames, l \in Faf5Lists}
    \cup {<<[name |-> a, FAF5 |-> l], [name |-> b, FAF5 |-> m]>> :
             <<a, b>> \in {p \in AggNames \X AggNames : p[1] # p[2]},
             <<l, m>> \in Faf5Lists \X Faf5Lists}

Optional(S) == {{}} \cup {{x} : x \in S}

WeightedAverageArgs ==
    UNION {[df_lcas_greet_mpg : TableLists(n),
            df_lcas_1mpg : Optional(TableLists(n)),
            weights : [1..n -> {Rat(k, WeightDen) : k \in 1..MaxWeight}],
            normalize_by_payload : BOOLEAN,
            payloads : Optional(PerClassValues(n)),
            use_vius_mpg : BOOLEAN,
            mpgs : Optional(PerClassValues(n))] : n \in 1..MaxClasses}

ShipRow(item, trip) == ("Item" :> item) @@ ("Trip" :> trip)
\* GREET marine csv files of n pollutants, listed in either order
ShipCsv(n, v, reversed) ==
    [i \in 1..n |-> ShipRow(ItemName(IF reversed THEN n + 1 - i ELSE i), v + i - 1)]
ShipCsvSet == {ShipCsv(n, v, r) : n \in 1..MaxRows, v \in 0..MaxVal, r \in BOOLEAN}

NoEnv == [none |-> TRUE]
EmptyDict == [truck |-> <<>>, rail |-> <<>>, ship |-> <<>>]

LcaCalls ==
    {[call |-> [fn |-> "readGreetWtwTruck"], disk |-> [csv |-> csv]] :
        csv \in RawTruckCsvSet}
    \cup {[call |-> [fn |-> "get_aggregated_commodity", faf5_commodity |-> c],
           disk |-> [map |-> m]] : c \in Faf5Names \cup {"c3"}, m \in MapSet}
    \cup {[call |-> [fn |-> "calculate_df_lca_weighted_average", args |-> a],
           disk |-> NoEnv] : a \in WeightedAverageArgs}
    \cup {[call |-> [fn |-> "calculate_emission_intensity_using_mpg_times_payload",
                     df_lca_1mpg |-> readGreetWtwTruck(csv), df_mpg_times_payload |-> s],
           disk |-> NoEnv] : csv \in RawTruckCsvSet, s \in [1..2 -> 1..MaxDiv]}
    \cup {[call |-> [fn |-> "plot_truck_emissions_per_class"], disk |-> [files |-> f]] :
             f \in [Range(GreetClasses) -> CatalogueCsvSet]}
    \cup {[call |-> [fn |-> "readGreetWthShip"],
           disk |-> [feedstock |-> f, conversion |-> c, combustion |-> b]] :
             f \in ShipCsvSet, c \in ShipCsvSet, b \in ShipCsvSet}

InitLca ==
    /\ \E c \in LcaCalls : call = c.call /\ disk = c.disk
    /\ pc = "call"
    /\ ret = <<>>
    /\ raised = NoException
    /\ stdout = <<>>
    /\ saved = <<>>
    /\ df_lca_dict = EmptyDict

Returns(value, printed) ==
    /\ pc' = "done"
    /\ ret' = value
    /\ raised' = NoException
    /\ stdout' = printed

Raises(exception, printed) ==
    /\ pc' = "done"
    /\ ret' = <<>>
    /\ raised' = exception
    /\ stdout' = printed

ReadGreetWtwTruck ==
    /\ pc = "call" /\ call.fn = "readGreetWtwTruck"
    /\ Returns(readGreetWtwTruck(disk.csv), <<>>)
    /\ UNCHANGED <<call, disk, saved, df_lca_dict>>

GetAggregatedCommodity ==
    /\ pc = "call" /\ call.fn = "get_aggregated_commodity"
    /\ LET r == get_aggregated_commodity(disk.map, call.faf5_commodity)
       IN  Returns(r.value, r.printed)
    /\ UNCHANGED <<call, disk, saved, df_lca_dict>>

CalculateDfLcaWeightedAverage ==
    /\ pc = "call" /\ call.fn = "calculate_df_lca_weighted_average"
    /\ IF WeightedAverageRaises(call.args)
       THEN Raises("TypeError", <<>>)
       ELSE Returns(calculate_df_lca_weighted_average(call.args), <<>>)
    /\ UNCHANGED <<call, disk, saved, df_lca_dict>>

CalculateEmissionIntensity ==
    /\ pc = "call" /\ call.fn = "calculate_emission_intensity_using_mpg_times_payload"
    /\ Returns(calculate_emission_intensity_using_mpg_times_payload(
                   call.df_lca_1mpg, call.df_mpg_times_payload), <<>>)
    /\ UNCHANGED <<call, disk, saved, df_lca_dict>>

PlotTruckEmissionsPerClass ==
    /\ pc = "call" /\ call.fn = "plot_truck_emissions_per_class"
    /\ IF \E k \in DOMAIN GreetClasses : Len(Co2Rows(disk.files)[k]) # 1
       THEN Raises("TypeError", <<>>) /\ saved' = saved
       ELSE /\ Returns(plot_truck_emissions_per_class(disk.files),
                       <<"Saving figure to plots/co2_emissions_per_class.png">>)
            /\ saved' = <<"plots/co2_emissions_per_class.png",
                          "plots/co2_emissions_per_class.pdf">>
    /\ UNCHANGED <<call, disk, df_lca_dict>>

ReadGreetWthShip ==
    /\ pc = "call" /\ call.fn = "readGreetWthShip"
    /\ Returns(readGreetWthShip(disk.feedstock, disk.conversion, disk.combustion), <<>>)
    /\ UNCHANGED <<call, disk, saved, df_lca_dict>>

NextLca ==
    \/ ReadGreetWtwTruck
    \/ GetAggregatedCommodity
    \/ CalculateDfLcaWeightedAverage
    \/ CalculateEmissionIntensity
    \/ PlotTruckEmissionsPerClass
    \/ ReadGreetWthShip

SpecLca == InitLca /\ [][NextLca]_vars

(***************************************************************************)
(* Properties of the LCATools functions (checked under SpecLca).           *)
(***************************************************************************)
Done(fn) == pc = "done" /\ call.fn = fn
Lifecycle == {"WTP", "PTW", "WTW"}

\* C1: with both flags unset, every WTP, PTW and WTW value of the returned
\* table is the weighted average sum_i(weights[i] * value_i) / sum_i(weights[i])
\* of the values of the tables of df_lcas_greet_mpg, for every list of
\* positive weights (written result * sum_i(weights[i]) = sum_i(weights[i] * value_i)).
C1_WeightedAverageOfAnyWeights ==
    (Done("calculate_df_lca_weighted_average")
        /\ ~call.args.normalize_by_payload /\ ~call.args.use_vius_mpg)
    => /\ raised = NoException
       /\ \A row \in DOMAIN ret : \A c \in Lifecycle :
            RatMul(ret[row][c], RatSum(call.args.weights))
              = RatSum([i \in DOMAIN call.args.weights |->
                          RatMul(call.args.weights[i],
                                 RatInt(call.args.df_lcas_greet_mpg[i][row][c]))])

\* C2: the term added for class i and column c is chosen by the two flags:
\* greet*w/payload, one_mpg*w/mpg, one_mpg*w/(payload*mpg) or greet*w; an
\* argument whose flag is unset is never read, so None there raises nothing.
C2_ClaimedTerm(a, i, row, c) ==
    LET w == a.weights[i]
        greet == RatInt(a.df_lcas_greet_mpg[i][row][c])
    IN  CASE a.normalize_by_payload /\ ~a.use_vius_mpg ->
                 RatDiv(RatMul(greet, w), RatInt(The(a.payloads)[i]))
          [] ~a.normalize_by_payload /\ a.use_vius_mpg ->
                 RatDiv(RatMul(RatInt(The(a.df_lcas_1mpg)[i][row][c]), w),
                        RatInt(The(a.mpgs)[i]))
          [] a.normalize_by_payload /\ a.use_vius_mpg ->
                 RatDiv(RatMul(RatInt(The(a.df_lcas_1mpg)[i][row][c]), w),
                        RatInt(The(a.payloads)[i] * The(a.mpgs)[i]))
          [] OTHER -> RatMul(greet, w)

C2_TermChosenByFlags ==
    Done("calculate_df_lca_weighted_average")
    => LET a == call.args
       IN  /\ raised # NoException
                => \/ (a.normalize_by_payload /\ a.payloads = {})
                   \/ (a.use_vius_mpg /\ (a.df_lcas_1mpg = {} \/ a.mpgs = {}))
           /\ raised = NoException
                => /\ DOMAIN ret = DOMAIN a.df_lcas_greet_mpg[1]
                   /\ \A row \in DOMAIN ret : \A c \in Lifecycle :
                        ret[row][c] = RatSum([i \in DOMAIN a.df_lcas_greet_mpg |->
                                                 C2_ClaimedTerm(a, i, row, c)])

C2_Witness ==
    /\ Done("calculate_df_lca_weighted_average")
    /\ raised = NoException
    /\ call.args.normalize_by_payload /\ call.args.use_vius_mpg
    /\ Len(call.args.weights) >= 2
    /\ call.args.df_lcas_1mpg # {call.args.df_lcas_greet_mpg}
    /\ \E i \in DOMAIN call.args.weights :
          The(call.args.payloads)[i] > 1 /\ The(call.args.mpgs)[i] > 1

\* C3: get_aggregated_commodity(c) returns the first aggregated commodity, in
\* map order, whose 'FAF5' list contains c; it returns None, after printing
\* a message and without raising, exactly when no 'FAF5' list contains c.
C3_FirstAggregatedCommodityOrNone ==
    Done("get_aggregated_commodity")
    => LET c == call.faf5_commodity
           holders == {i \in DOMAIN disk.map :
                          \E k \in DOMAIN disk.map[i].FAF5 : disk.map[i].FAF5[k] = c}
       IN  /\ raised = NoException
           /\ (ret = None) <=> (holders = {})
           /\ holders = {} => Len(stdout) = 1
           /\ holders # {}
                => /\ stdout = <<>>
                   /\ \E i \in holders :
                        /\ ret = disk.map[i].name
                        /\ \A j \in holders : i <= j

C3_Witness ==
    /\ Done("get_aggregated_commodity")
    /\ Len(disk.map) = 2
    /\ \A i \in DOMAIN disk.map : call.faf5_commodity \in Range(disk.map[i].FAF5)
    /\ ret = disk.map[1].name

\* C4: every WTP, PTW and WTW value of the returned intensity table is the
\* value of df_lca_1mpg divided by df_mpg_times_payload[0]; the other
\* columns are those of df_lca_1mpg.
C4_IntensityIsRateOverMpgTimesPayload ==
    Done("calculate_emission_intensity_using_mpg_times_payload")
    => LET intensity == ret[1]
           rate == call.df_lca_1mpg
       IN  /\ DOMAIN intensity = DOMAIN rate
           /\ \A row \in DOMAIN rate :
                /\ DOMAIN intensity[row] = DOMAIN rate[row]
                /\ \A c \in DOMAIN rate[row] :
                     IF c \in Lifecycle
                     THEN RatMul(intensity[row][c], RatInt(call.df_mpg_times_payload[1]))
                            = RatInt(rate[row][c])
                     ELSE intensity[row][c] = rate[row][c]

C4_Witness ==
    /\ Done("calculate_emission_intensity_using_mpg_times_payload")
    /\ call.df_mpg_times_payload[1] > 1
    /\ \E row \in DOMAIN ret[1] : ret[1][row]["WTW"][2] > 1

\* C5: readGreetWtwTruck returns, row for row, WTP = Feedstock + Fuel,
\* PTW = 'Vehicle Operation', WTW = 'Total', without the four input columns.
C5_TruckStagesReformatted ==
    Done("readGreetWtwTruck")
    => /\ DOMAIN ret = DOMAIN disk.csv
       /\ \A i \in DOMAIN ret :
            /\ ret[i]["WTP"] = disk.csv[i]["Feedstock"] + disk.csv[i]["Fuel"]
            /\ ret[i]["PTW"] = disk.csv[i]["Vehicle Operation"]
            /\ ret[i]["WTW"] = disk.csv[i]["Total"]
            /\ ret[i]["Item"] = disk.csv[i]["Item"]
            /\ DOMAIN ret[i] \cap {"Feedstock", "Fuel", "Vehicle Operation", "Total"} = {}

C5_Witness ==
    /\ Done("readGreetWtwTruck")
    /\ Len(ret) >= 2
    /\ \E i \in DOMAIN ret :
          /\ disk.csv[i]["Feedstock"] > 0 /\ disk.csv[i]["Fuel"] > 0
          /\ disk.csv[i]["Vehicle Operation"] # disk.csv[i]["Total"]

\* C6: readGreetWthShip returns one row per row of the feedstock table, with
\* its 'Item'; for every row the three tables have, WTP is the converted
\* feedstock plus the converted conversion 'Trip', PTH the converted
\* combustion 'Trip' and WTH = WTP + PTH, all three converted by the one
\* factor (1/1e6)*(1/TONNES_TO_TONS)*(1/KM_TO_MILES).
C6_Converted(n) ==
    [nan |-> FALSE, terms |-> IF n = 0 THEN {} ELSE {[u |-> <<1, 1, 1>>, n |-> n]}]

C6_ShipStagesConverted ==
    Done("readGreetWthShip")
    => /\ DOMAIN ret = DOMAIN disk.feedstock
       /\ \A i \in DOMAIN ret :
            /\ ret[i].Item = disk.feedstock[i]["Item"]
            /\ (i \in DOMAIN disk.conversion /\ i \in DOMAIN disk.combustion)
                 => /\ ret[i].WTP = C6_Converted(disk.feedstock[i]["Trip"]
                                                   + disk.conversion[i]["Trip"])
                    /\ ret[i].PTH = C6_Converted(disk.combustion[i]["Trip"])
                    /\ ret[i].WTH = C6_Converted(disk.feedstock[i]["Trip"]
                                                   + disk.conversion[i]["Trip"]
                                                   + disk.combustion[i]["Trip"])

C6_Witness ==
    /\ Done("readGreetWthShip")
    /\ \E i \in DOMAIN ret :
          /\ i \in DOMAIN disk.conversion /\ i \in DOMAIN disk.combustion
          /\ disk.feedstock[i]["Trip"] > 0 /\ disk.conversion[i]["Trip"] > 0
          /\ disk.combustion[i]["Trip"] > 0
          /\ disk.combustion[i]["Item"] # disk.feedstock[i]["Item"]

\* C7: plot_truck_emissions_per_class records for each GREET truck class the
\* CO2 value of each stage of that class's table: WTP the well-to-pump value,
\* PTW the pump-to-wheel value and WTW the well-to-wheel value.
C7_Co2Value(csv, stage) ==
    LET i == CHOOSE r \in DOMAIN csv : csv[r]["Item"] = CO2
    IN  CASE stage = "WTP" -> csv[i]["Feedstock"] + csv[i]["Fuel"]
          [] stage = "PTW" -> csv[i]["Vehicle Operation"]
          [] stage = "WTW" -> csv[i]["Total"]

C7_EveryStageRecorded ==
    (Done("plot_truck_emissions_per_class") /\ raised = NoException)
    => \A k \in DOMAIN GreetClasses :
          /\ ret.class[k] = GreetClasses[k]
          /\ ret.WTP[k] = C7_Co2Value(disk.files[GreetClasses[k]], "WTP")
          /\ ret.PTW[k] = C7_Co2Value(disk.files[GreetClasses[k]], "PTW")
          /\ ret.WTW[k] = C7_Co2Value(disk.files[GreetClasses[k]], "WTW")

(***************************************************************************)
(* LCATools.main: fillLcaDf is called on df_lca_dict for "all" and for the *)
(* commodities of the FAF5 metadata.  An exception is not caught: it ends  *)
(* the script.                                                             *)
(***************************************************************************)
Modes == {"truck", "rail", "ship"}
FillCommodities == Faf5Names \cup {"c3", "all"}

FillDiskSet ==
    [map : {m \in MapSet : Len(m) = 2 /\ \A i \in DOMAIN m : Len(m[i].FAF5) = 1},
     mpg_times_payload :
         UNION {[cols -> {<<v, 1>> : v \in 1..MaxDiv}] :
                   cols \in {{"all"} \cup AggNames, {"all", "agg1"}}},
     truck_1mpg : CatalogueCsvSet,
     rail : {readGreetWtwTruck(CatalogueCsv(0, FALSE))},
     ship : {[feedstock |-> <<ShipRow(CO2, MaxVal), ShipRow("CH4", 0)>>,
              conversion |-> <<ShipRow(CO2, 1), ShipRow("CH4", MaxVal)>>,
              combustion |-> <<ShipRow(CO2, MaxVal), ShipRow("CH4", 1)>>]}]

InitFill ==
    /\ call = [fn |-> "main"]
    /\ disk \in FillDiskSet
    /\ pc = "done"
    /\ ret = None
    /\ raised = NoException
    /\ stdout = <<>>
    /\ saved = <<>>
    /\ df_lca_dict = EmptyDict

FillLcaDf ==
    /\ raised = NoException
    /\ call.fn \in {"main", "fillLcaDf"}
    /\ \E commodity \in FillCommodities :
          LET r == fillLcaDf(df_lca_dict, disk, commodity)
          IN  /\ call' = [fn |-> "fillLcaDf", commodity |-> commodity]
              /\ pc' = "done"
              /\ ret' = None
              /\ raised' = r.raised
              /\ stdout' = r.printed
              /\ df_lca_dict' = r.df_dict
    /\ UNCHANGED <<disk, saved>>

NextFill == FillLcaDf

SpecFill == InitFill /\ [][NextFill]_vars

\* C8: a call fillLcaDf(df_dict, top_dir, commodity) that returns has set
\* df_dict[mode][commodity] of the three modes to the truck, rail and ship
\* tables of the commodity, and every call leaves the entries stored under
\* any other commodity key unchanged.
C8_FillSetsOnlyItsCommodity ==
    [][call'.fn = "fillLcaDf"
        => LET commodity == call'.commodity
           IN  /\ raised' = NoException
                    => /\ \A m \in Modes :
                            DOMAIN df_lca_dict'[m] = DOMAIN df_lca_dict[m] \cup {commodity}
                       /\ df_lca_dict'.truck[commodity]
                            = evaluateGreetWtwTruck_by_mpg_times_payload(disk, commodity).value[1]
                       /\ df_lca_dict'.rail[commodity] = disk.rail
                       /\ df_lca_dict'.ship[commodity]
                            = readGreetWthShip(disk.ship.feedstock, disk.ship.conversion,
                                               disk.ship.combustion)
               /\ \A m \in Modes : \A k \in DOMAIN df_lca_dict[m] \ {commodity} :
                    /\ k \in DOMAIN df_lca_dict'[m]
                    /\ df_lca_dict'[m][k] = df_lca_dict[m][k]]_vars

C8_Witness ==
    /\ Done("fillLcaDf")
    /\ raised = NoException
    /\ \E k \in DOMAIN df_lca_dict.truck :
          /\ k # call.commodity
          /\ df_lca_dict.truck[k] # df_lca_dict.truck[call.commodity]

(***************************************************************************)
(* AnalyzeVius: the survey table df.  A record is a function from column   *)
(* names to cells; a cell is {} when missing (NaN) and {v} otherwise.      *)
(* TON_MILES is the record's estimated annual ton-miles.                   *)
(***************************************************************************)
LbPerTon == 2000        \* LB_TO_TONS = 1 / 2000.0
GvwBins == 50           \* plot_gvw_hist: bins=50
PayloadBins == 10       \* plot_payload_hist: bins=10
DefaultBinning == 10    \* plot_mpg_times_payload_hist: binning=10

\* the sequence s itself, with its elements computed once
Eager(s) == <<>> \o s

IsNa(cell) == cell = {}

GreaterOrEqual(cell, threshold) == \E v \in cell : v >= threshold

\* df[column] > threshold; False for a missing cell
GreaterThan(cell, threshold) == \E v \in cell : v > threshold

cNoPassenger(r) == IsNa(r.PPASSENGERS) \/ r.PPASSENGERS = {0}

\* the columns the baseline cut of each function requires to be present
BaselineColumns(fn) ==
    CASE fn = "plot_greet_class_hist" -> {"GREET_CLASS", "MILES_ANNL", "WEIGHTEMPTY", "FUEL"}
      [] fn = "plot_age_hist" ->
             {"WEIGHTAVG", "MILES_ANNL", "WEIGHTEMPTY", "FUEL", "ACQUIREYEAR"}
      [] fn = "plot_gvw_hist" -> {"WEIGHTAVG", "MILES_ANNL", "WEIGHTEMPTY", "FUEL"}
      [] fn = "plot_payload_hist" ->
             {"WEIGHTAVG", "MILES_ANNL", "WEIGHTEMPTY", "FUEL", "ACQUIREYEAR"}
      [] fn = "plot_mpg_times_payload_hist" ->
             {"MILES_ANNL", "WEIGHTEMPTY", "FUEL", "ACQUIREYEAR"}

cBaseline(fn, r) ==
    /\ \A c \in BaselineColumns(fn) : ~IsNa(r[c])
    /\ fn = "plot_mpg_times_payload_hist" => GreaterThan(r.WEIGHTAVG, 8500)
    /\ cNoPassenger(r)

cRange(a, r) ==
    \/ a.truck_range = "all"
    \/ (~IsNa(r[a.truck_range]) /\ GreaterThan(r[a.truck_range], a.range_threshold))

cCommodity(a, r) ==
    \/ a.commodity = "all"
    \/ (~IsNa(r[a.commodity]) /\ GreaterThan(r[a.commodity], a.commodity_threshold))

cRegion(a, r) ==
    \/ a.region = "US"
    \/ (~IsNa(r.ADM_STATE) /\ r.ADM_STATE = {a.region})

\* plot_payload_hist only.  The argument greet_class is {} for 'all' and
\* {k} for the class k.
class_str(a) == IF a.plot_vw_class THEN "UNLOADED_WEIGHT_CLASS" ELSE "GREET_CLASS"

cGreetClass(a, r) ==
    \/ a.greet_class = {}
    \/ (~IsNa(r[class_str(a)]) /\ r[class_str(a)] = a.greet_class)

cSelection(fn, a, df) ==
    Eager([k \in DOMAIN df |->
        /\ cCommodity(a, df[k]) /\ cRange(a, df[k]) /\ cRegion(a, df[k])
        /\ cBaseline(fn, df[k])
        /\ fn = "plot_payload_hist" => cGreetClass(a, df[k])])

\* the row labels a boolean mask keeps, in order: df[mask]
Kept(mask) ==
    LET F[i \in 0..Len(mask)] ==
            IF i = 0 THEN <<>>
            ELSE IF mask[i] THEN Append(F[i - 1], i) ELSE F[i - 1]
    IN  F[Len(mask)]

\* ViusTools.get_annual_ton_miles: the annual ton-miles of the records of
\* cSelection that also have the given fuel and GREET class ({} is 'all')
get_annual_ton_miles(df, mask, fuel, greet_class) ==
    LET keep == Kept([k \in DOMAIN df |->
                         /\ mask[k]
                         /\ fuel = {} \/ df[k].FUEL = fuel
                         /\ greet_class = {} \/ df[k].GREET_CLASS = greet_class])
    IN  Eager([j \in DOMAIN keep |-> The(df[keep[j]].TON_MILES)])

Ones(weights) == Eager([j \in DOMAIN weights |-> 1])
NotSquared(weights) == weights
Squared(weights) == Eager([j \in DOMAIN weights |-> weights[j] * weights[j]])

(***************************************************************************)
(* numpy.histogram.  Data values and bin edges are rationals.  A number of *)
(* bins gives equal-width edges from the smallest to the largest value     *)
(* ((0, 1) without data, widened by 0.5 on both sides when they are        *)
(* equal); the last bin includes its right edge.                           *)
(***************************************************************************)
RatLeq(x, y) == x[1] * y[2] <= y[1] * x[2]
RatLt(x, y) == x[1] * y[2] < y[1] * x[2]
RatSub(x, y) == Rat(x[1] * y[2] - y[1] * x[2], x[2] * y[2])

RatMin(S) == CHOOSE x \in S : \A y \in S : RatLeq(x, y)
RatMax(S) == CHOOSE x \in S : \A y \in S : RatLeq(y, x)

IntBins(nbins) == [kind |-> "int", n |-> nbins]
ArrayBins(edges) == [kind |-> "array", edges |-> edges]

BinEdges(data, bins) ==
    IF bins.kind = "array" THEN bins.edges
    ELSE LET first == IF data = <<>> THEN <<0, 1>> ELSE RatMin(Range(data))
             last == IF data = <<>> THEN <<1, 1>> ELSE RatMax(Range(data))
             lo == IF first = last THEN RatSub(first, <<1, 2>>) ELSE first
             hi == IF first = last THEN RatAdd(last, <<1, 2>>) ELSE last
         IN  Eager([i \in 1..(bins.n + 1) |->
                 RatAdd(lo, RatDiv(RatMul(RatInt(i - 1), RatSub(hi, lo)), RatInt(bins.n)))])

InBin(x, edges, b) ==
    /\ RatLeq(edges[b], x)
    /\ RatLt(x, edges[b + 1]) \/ (b = Len(edges) - 1 /\ x = edges[b + 1])

RECURSIVE SumSeq(_)
SumSeq(s) == IF s = <<>> THEN 0 ELSE s[1] + SumSeq(Tail(s))

np_histogram(data, bins, weights) ==
    LET edges == BinEdges(data, bins)
    IN  Eager([b \in 1..(Len(edges) - 1) |->
            SumSeq([j \in DOMAIN data |->
                       IF InBin(data[j], edges, b) THEN weights[j] ELSE 0])])

\* numpy.average(data, weights=weights), for weights of non-zero sum
np_average(data, weights) ==
    RatDiv(RatSum([j \in DOMAIN data |-> RatMul(data[j], RatInt(weights[j]))]),
           RatInt(SumSeq(weights)))

(***************************************************************************)
(* The five histogram functions.  Each operator gives the local variables  *)
(* of the call when it returned or raised (ret), the exception, what was   *)
(* printed and the files saved.  n_err is kept as its square n_err2, the   *)
(* histogram of the squared weights.                                       *)
(***************************************************************************)
\* df[mask][column], as cells
Column(df, mask, column) ==
    LET kept == Kept(mask) IN Eager([j \in DOMAIN kept |-> df[kept[j]][column]])

\* 'calls' lists the library calls made after the selection, in order
Locals(mask) ==
    [cSelection |-> mask, calls |-> <<>>, weights_all |-> <<>>, data |-> <<>>,
     n |-> <<>>, n_err2 |-> <<>>, bins |-> <<>>, bins_err |-> <<>>, stack |-> <<>>,
     centroids |-> <<>>]

\* n, bins = np.histogram(data, bins, weights) and the histogram of the
\* squared weights with the bins given to the second call
Histogram(data, bins, bins_err, weights) ==
    [n |-> np_histogram(data, bins, weights),
     n_err2 |-> np_histogram(data, bins_err, Squared(weights)),
     bins |-> BinEdges(data, bins),
     bins_err |-> BinEdges(data, bins_err)]

WithHistogram(locals, data, weights, h) ==
    [locals EXCEPT !.calls = <<"get_annual_ton_miles", "plt.figure", "np.histogram">>,
                   !.weights_all = weights, !.data = data, !.n = h.n,
                   !.n_err2 = h.n_err2, !.bins = h.bins, !.bins_err = h.bins_err]

Weights_AlwaysTonMiles(a, annual_ton_miles) == annual_ton_miles

Weights(a, annual_ton_miles) ==
    IF a.weight_by_tm THEN annual_ton_miles ELSE Ones(annual_ton_miles)

weight_str(a) == IF a.weight_by_tm THEN "" ELSE "_unweighted"

\* the two files of a figure; the name is kept as the parts of the f-string
Figure(parts) == <<parts \o <<".png">>, parts \o <<".pdf">>>>

\* get_region_pretty(region).replace(' ', '_'): the entry of
\* InfoObjects.states_dict is kept as the key looked up
region_save(a) == IF a.region = "US" THEN <<"US">> ELSE <<"states_dict", a.region>>

\* with set_range_save and set_commodity_save left at 'default', range_save
\* is truck_range and commodity_save is commodity
NameParts(stem, a) ==
    <<stem, IF a.aggregated THEN "_aggregated" ELSE "", "_range_", a.truck_range,
      "_commodity_", a.commodity, "_region_">> \o region_save(a)

Result(locals, exception, printed, files) ==
    [ret |-> locals, raised |-> exception, printed |-> printed, saved |-> files]

Saved(locals, parts) ==
    Result(locals, NoException, <<<<"Saving figure to">> \o parts \o <<".png">>>>,
           Figure(parts))

NoEvents_Silent(locals) == Result(locals, NoException, <<>>, <<>>)

NoEvents(locals) ==
    Result(locals, NoException,
           <<"ERROR No events in selection. Returning without plotting.">>, <<>>)

GreetClassBins == ArrayBins(Eager([i \in 1..5 |-> Rat(2 * i - 1, 2)]))
AgeBins == ArrayBins(Eager([i \in 1..18 |-> Rat(2 * i - 3, 2)]))

plot_greet_class_hist(df, a) ==
    LET mask == cSelection("plot_greet_class_hist", a, df)
        values(m) == Eager([j \in DOMAIN Kept(m) |->
                               RatInt(The(df[Kept(m)[j]].GREET_CLASS))])
        weights_all == Weights(a, get_annual_ton_miles(df, mask, {}, {}))
        cFuel(i) == [k \in DOMAIN df |-> df[k].FUEL = {i} /\ mask[k]]
        fuel(i) == Histogram(values(cFuel(i)), GreetClassBins, GreetClassBins,
                             Weights(a, get_annual_ton_miles(df, mask, {i}, {})))
        total == WithHistogram(Locals(mask), values(mask), weights_all,
                     Histogram(values(mask), GreetClassBins, GreetClassBins, weights_all))
    IN  Saved([total EXCEPT !.stack = Eager([i \in 1..4 |-> fuel(i)])],
              NameParts("plots/greet_truck_class_distribution", a) \o <<weight_str(a)>>)

plot_age_hist(df, a) ==
    LET mask == cSelection("plot_age_hist", a, df)
        values(m) == Eager([j \in DOMAIN Kept(m) |->
                               RatInt(The(df[Kept(m)[j]].ACQUIREYEAR) - 1)])
        weights_all == Weights(a, get_annual_ton_miles(df, mask, {}, {}))
        cClass(i) == [k \in DOMAIN df |-> df[k].GREET_CLASS = {i} /\ mask[k]]
        class(i) == Histogram(values(cClass(i)), AgeBins, AgeBins,
                              Weights(a, get_annual_ton_miles(df, mask, {}, {i})))
        total == WithHistogram(Locals(mask), values(mask), weights_all,
                     Histogram(values(mask), AgeBins, AgeBins, weights_all))
    IN  Saved([total EXCEPT !.stack = Eager([i \in 1..4 |-> class(i)])],
              NameParts("plots/age_distribution", a) \o <<weight_str(a)>>)

\* the bins holding the largest content: n == np.max(n)
PeakBins(n) == {b \in DOMAIN n : \A c \in DOMAIN n : n[c] <= n[b]}

plot_gvw_hist(df, a) ==
    LET mask == cSelection("plot_gvw_hist", a, df)
        data == Eager([j \in DOMAIN Kept(mask) |->
                          RatInt(The(df[Kept(mask)[j]].WEIGHTAVG))])
        weights == Weights(a, get_annual_ton_miles(df, mask, {}, {}))
        first == Histogram(data, IntBins(GvwBins), IntBins(GvwBins), weights)
        h == Histogram(data, IntBins(GvwBins), ArrayBins(first.bins), weights)
        locals == WithHistogram(Locals(mask), data, weights, h)
    IN  IF SumSeq(weights) = 0
        THEN Result(locals, "ZeroDivisionError", <<>>, <<>>)   \* np.average
        ELSE IF Cardinality(PeakBins(h.n)) # 1
        THEN Result(locals, "TypeError", <<>>, <<>>)           \* int(peak_central)
        ELSE Saved(locals, NameParts("plots/gvw_distribution", a) \o <<weight_str(a)>>)

\* (WEIGHTAVG - WEIGHTEMPTY) * LB_TO_TONS of the kept records
Payload(df, mask) ==
    Eager([j \in DOMAIN Kept(mask) |->
        Rat(The(df[Kept(mask)[j]].WEIGHTAVG) - The(df[Kept(mask)[j]].WEIGHTEMPTY),
            LbPerTon)])

greet_class_str(a) ==
    IF a.greet_class = {} THEN <<"all">>
    ELSE <<"GREET_classes_dict", ToString(The(a.greet_class))>>

plot_payload_hist(df, a) ==
    LET mask == cSelection("plot_payload_hist", a, df)
        weights_all == Weights(a, get_annual_ton_miles(df, mask, {}, {}))
        payload == Payload(df, mask)
        h == Histogram(payload, IntBins(PayloadBins), IntBins(PayloadBins), weights_all)
    IN  IF Kept(mask) = <<>> THEN NoEvents(Locals(mask))
        ELSE Saved(WithHistogram(Locals(mask), payload, weights_all, h),
                   NameParts("plots/payload_distribution", a) \o
                       <<"_", IF a.plot_vw_class THEN "unloaded_weight_class"
                                                 ELSE "greet_class", "_">> \o
                       greet_class_str(a) \o <<weight_str(a)>>)

\* data[mask] for a sequence and a mask of the same length
Filter(seq, mask) ==
    LET kept == Kept(mask) IN Eager([j \in DOMAIN kept |-> seq[kept[j]]])

\* np.average raises ZeroDivisionError in get_bin_centroids: some bin holds
\* data whose weights sum to zero
CentroidWeightsSumToZero(data, weights, bins) ==
    \E i \in 1..(Len(bins) - 1) :
        LET in == Eager([j \in DOMAIN data |->
                            RatLeq(bins[i], data[j]) /\ RatLt(data[j], bins[i + 1])])
        IN  Filter(data, in) # <<>> /\ SumSeq(Filter(weights, in)) = 0

get_bin_centroids_ClosedBins(data, weights, bins) ==
    LET in(i) == Eager([j \in DOMAIN data |->
                           RatLeq(bins[i], data[j]) /\ RatLeq(data[j], bins[i + 1])])
    IN  Eager([i \in 1..(Len(bins) - 1) |->
            IF Filter(data, in(i)) = <<>>
            THEN RatMul(<<1, 2>>, RatAdd(bins[i], bins[i + 1]))
            ELSE np_average(Filter(data, in(i)), Filter(weights, in(i)))])

\* the centroids returned when np.average does not raise
get_bin_centroids(data, weights, bins) ==
    LET in(i) == Eager([j \in DOMAIN data |->
                           RatLeq(bins[i], data[j]) /\ RatLt(data[j], bins[i + 1])])
    IN  Eager([i \in 1..(Len(bins) - 1) |->
            IF Filter(data, in(i)) = <<>>
            THEN RatMul(<<1, 2>>, RatAdd(bins[i], bins[i + 1]))
            ELSE np_average(Filter(data, in(i)), Filter(weights, in(i)))])

plot_mpg_times_payload_hist(df, a) ==
    LET mask == cSelection("plot_mpg_times_payload_hist", a, df)
        annual == Weights(a, get_annual_ton_miles(df, mask, {}, {}))
        payload == Payload(df, mask)
        mpg == Column(df, mask, "MPG")
        \* df[cSelection]['MPG'] * payload: NaN ({}) where MPG is missing
        product == Eager([j \in DOMAIN mpg |->
                             {RatMul(RatInt(m), payload[j]) : m \in mpg[j]}])
        positive == Eager([j \in DOMAIN product |->
                              \E x \in product[j] : RatLt(<<0, 1>>, x)])
        weights_all == Filter(annual, positive)
        mpg_times_payload == Eager([j \in DOMAIN Kept(positive) |->
                                       The(product[Kept(positive)[j]])])
        h == Histogram(mpg_times_payload, a.binning, a.binning, weights_all)
        locals == WithHistogram(Locals(mask), mpg_times_payload, weights_all, h)
    IN  IF Kept(mask) = <<>> THEN NoEvents(Locals(mask))
        ELSE IF a.binning.kind = "int"
        THEN Result(locals, "TypeError", <<>>, <<>>)   \* binning[:-1], len(bins)
        ELSE IF CentroidWeightsSumToZero(mpg_times_payload, weights_all, a.binning.edges)
        THEN Result(locals, "ZeroDivisionError", <<>>, <<>>)   \* get_bin_centroids
        ELSE IF SumSeq(weights_all) = 0
        THEN Result([locals EXCEPT !.centroids =
                        get_bin_centroids(mpg_times_payload, weights_all, a.binning.edges)],
                    "ZeroDivisionError", <<>>, <<>>)   \* np.average
        ELSE Saved([locals EXCEPT !.centroids =
                       get_bin_centroids(mpg_times_payload, weights_all, a.binning.edges)],
                   NameParts("plots/mpg_times_payload_distribution", a) \o
                       <<weight_str(a), a.binning_info,
                         IF a.density THEN "_density" ELSE "">>)

(***************************************************************************)
(* Survey records and calls of the histogram functions.                    *)
(***************************************************************************)
MaxDeviations == 1   \* columns in which a record of the selection runs differs from BaseRecord
MaxRecords == 2      \* records of the survey table in the histogram runs
Threshold == 50      \* the non-zero percentage threshold of the calls

PlotFunctions ==
    {"plot_greet_class_hist", "plot_age_hist", "plot_gvw_hist", "plot_payload_hist",
     "plot_mpg_times_payload_hist"}

\* a record every function selects under every call below
BaseRecord ==
    [PPASSENGERS |-> {}, GREET_CLASS |-> {1}, UNLOADED_WEIGHT_CLASS |-> {1},
     MILES_ANNL |-> {1000}, WEIGHTEMPTY |-> {10500}, WEIGHTAVG |-> {20500},
     FUEL |-> {1}, ACQUIREYEAR |-> {1}, ADM_STATE |-> {"25"},
     PCOAL |-> {Threshold + 10}, TRIP0_50 |-> {Threshold + 10},
     MPG |-> {5}, TON_MILES |-> {1}]

SelectionVariants ==
    {<<"PPASSENGERS", {0}>>, <<"PPASSENGERS", {1}>>,
     <<"GREET_CLASS", {}>>, <<"GREET_CLASS", {2}>>,
     <<"UNLOADED_WEIGHT_CLASS", {}>>, <<"UNLOADED_WEIGHT_CLASS", {2}>>,
     <<"MILES_ANNL", {}>>, <<"WEIGHTEMPTY", {}>>,
     <<"WEIGHTAVG", {}>>, <<"WEIGHTAVG", {8500}>>,
     <<"FUEL", {}>>, <<"ACQUIREYEAR", {}>>,
     <<"ADM_STATE", {}>>, <<"ADM_STATE", {"36"}>>,
     <<"PCOAL", {}>>, <<"PCOAL", {0}>>, <<"PCOAL", {Threshold}>>,
     <<"TRIP0_50", {}>>, <<"TRIP0_50", {0}>>, <<"TRIP0_50", {Threshold}>>}

HistogramVariants ==
    {<<"PPASSENGERS", {1}>>, <<"GREET_CLASS", {2}>>, <<"FUEL", {2}>>,
     <<"ACQUIREYEAR", {3}>>, <<"WEIGHTAVG", {30500}>>, <<"WEIGHTEMPTY", {20500}>>,
     <<"MPG", {}>>, <<"TON_MILES", {2}>>}

\* the records differing from BaseRecord in at most k columns
RECURSIVE Deviating(_, _)
Deviating(variants, k) ==
    IF k = 0 THEN {BaseRecord}
    ELSE Deviating(variants, k - 1) \cup
         {[r EXCEPT ![v[1]] = v[2]] :
             r \in Deviating(variants, k - 1),
             v \in {w \in variants : BaseRecord[w[1]] # w[2]}}

SelectionRecords == Deviating(SelectionVariants, MaxDeviations)
HistogramRecords == Deviating(HistogramVariants, 1)

\* binning=np.asarray([0, 50, 100, 125, 150, 200, 600]) of the module script
ScriptBinning == ArrayBins(<<RatInt(0), RatInt(50), RatInt(100), RatInt(125),
                             RatInt(150), RatInt(200), RatInt(600)>>)

Cuts ==
    {[commodity |-> c[1], commodity_threshold |-> c[2], truck_range |-> t[1],
      range_threshold |-> t[2], region |-> g] :
        c \in {<<"all", 0>>, <<"PCOAL", 0>>, <<"PCOAL", Threshold>>},
        t \in {<<"all", 0>>, <<"TRIP0_50", 0>>, <<"TRIP0_50", Threshold>>},
        g \in {"US", "25"}}

NoCuts ==
    [commodity |-> "all", commodity_threshold |-> 0, truck_range |-> "all",
     range_threshold |-> 0, region |-> "US"]

\* the arguments of a call of fn besides df
Arguments(fn, cuts, aggregated, weight_by_tm, greet_class, plot_vw_class, binning, density) ==
    LET common == [fn |-> fn, commodity |-> cuts.commodity,
                   commodity_threshold |-> cuts.commodity_threshold,
                   truck_range |-> cuts.truck_range,
                   range_threshold |-> cuts.range_threshold, region |-> cuts.region,
                   aggregated |-> aggregated, weight_by_tm |-> weight_by_tm]
    IN  IF fn = "plot_payload_hist"
        THEN [f \in DOMAIN common \cup {"greet_class", "plot_vw_class"} |->
                 IF f = "greet_class" THEN greet_class
                 ELSE IF f = "plot_vw_class" THEN plot_vw_class ELSE common[f]]
        ELSE IF fn = "plot_mpg_times_payload_hist"
        THEN [f \in DOMAIN common \cup {"binning", "binning_info", "density"} |->
                 IF f = "binning" THEN binning
                 ELSE IF f = "binning_info"
                 THEN IF binning.kind = "array" THEN "nonequi" ELSE ""
                 ELSE IF f = "density" THEN density ELSE common[f]]
        ELSE common

SelectionCalls ==
    {Arguments(fn, cuts, FALSE, TRUE, {}, FALSE, ScriptBinning, FALSE) :
        fn \in PlotFunctions \ {"plot_payload_hist"}, cuts \in Cuts}
    \cup {Arguments("plot_payload_hist", cuts, FALSE, TRUE, g, vw, ScriptBinning, FALSE) :
             cuts \in Cuts, g \in {{}, {1}}, vw \in BOOLEAN}

HistogramCalls ==
    {Arguments(fn, NoCuts, ag, w, {}, FALSE, ScriptBinning, FALSE) :
        fn \in PlotFunctions \ {"plot_payload_hist", "plot_mpg_times_payload_hist"},
        ag \in BOOLEAN, w \in BOOLEAN}
    \cup {Arguments("plot_payload_hist", NoCuts, ag, w, g, FALSE, ScriptBinning, FALSE) :
             ag \in BOOLEAN, w \in BOOLEAN, g \in {{}, {1}}}
    \cup {Arguments("plot_mpg_times_payload_hist", NoCuts, ag, w, {}, FALSE, b, d) :
             ag \in BOOLEAN, w \in BOOLEAN,
             b \in {IntBins(DefaultBinning), ScriptBinning}, d \in BOOLEAN}

SurveyTables == UNION {[1..n -> HistogramRecords] : n \in 0..MaxRecords}

WithDf(a, df) == [f \in DOMAIN a \cup {"df"} |-> IF f = "df" THEN df ELSE a[f]]

InitVius(calls, tables) ==
    /\ \E a \in calls, df \in tables : call = WithDf(a, df)
    /\ pc = "call"
    /\ ret = <<>>
    /\ raised = NoException
    /\ stdout = <<>>
    /\ saved = <<>>
    /\ df_lca_dict = EmptyDict
    /\ disk = NoEnv

InitSelection == InitVius(SelectionCalls, {<<r>> : r \in SelectionRecords})
InitHistogram == InitVius(HistogramCalls, SurveyTables)

Finish(r) ==
    /\ pc' = "done"
    /\ ret' = r.ret
    /\ raised' = r.raised
    /\ stdout' = r.printed
    /\ saved' = r.saved
    /\ UNCHANGED <<call, disk, df_lca_dict>>

PlotGreetClassHist ==
    /\ pc = "call" /\ call.fn = "plot_greet_class_hist"
    /\ \E r \in {plot_greet_class_hist(call.df, call)} : Finish(r)

PlotAgeHist ==
    /\ pc = "call" /\ call.fn = "plot_age_hist"
    /\ \E r \in {plot_age_hist(call.df, call)} : Finish(r)

PlotGvwHist ==
    /\ pc = "call" /\ call.fn = "plot_gvw_hist"
    /\ \E r \in {plot_gvw_hist(call.df, call)} : Finish(r)

PlotPayloadHist ==
    /\ pc = "call" /\ call.fn = "plot_payload_hist"
    /\ \E r \in {plot_payload_hist(call.df, call)} : Finish(r)

PlotMpgTimesPayloadHist ==
    /\ pc = "call" /\ call.fn = "plot_mpg_times_payload_hist"
    /\ \E r \in {plot_mpg_times_payload_hist(call.df, call)} : Finish(r)

NextVius ==
    \/ PlotGreetClassHist
    \/ PlotAgeHist
    \/ PlotGvwHist
    \/ PlotPayloadHist
    \/ PlotMpgTimesPayloadHist

SpecSelection == InitSelection /\ [][NextVius]_vars
SpecHistogram == InitHistogram /\ [][NextVius]_vars

(***************************************************************************)
(* Selection of the survey records (checked under SpecSelection).          *)
(***************************************************************************)
Plotted == pc = "done" /\ call.fn \in PlotFunctions

C9_RequiredColumns ==
    IF call.fn = "plot_greet_class_hist"
    THEN {"GREET_CLASS", "MILES_ANNL", "WEIGHTEMPTY", "FUEL"}
    ELSE IF call.fn = "plot_gvw_hist"
    THEN {"WEIGHTAVG", "MILES_ANNL", "WEIGHTEMPTY", "FUEL"}
    ELSE {"WEIGHTAVG", "MILES_ANNL", "WEIGHTEMPTY", "FUEL", "ACQUIREYEAR"}

C9_Above(cell, threshold) == cell # {} /\ \A v \in cell : v > threshold

C9_Cuts(r) ==
    /\ r.PPASSENGERS \in {{}, {0}}
    /\ call.truck_range = "all" \/ C9_Above(r[call.truck_range], call.range_threshold)
    /\ call.commodity = "all" \/ C9_Above(r[call.commodity], call.commodity_threshold)
    /\ call.region = "US" \/ r.ADM_STATE = {call.region}

C9_ClassCut(r) ==
    call.fn = "plot_payload_hist" =>
        \/ call.greet_class = {}
        \/ /\ call.plot_vw_class /\ r.UNLOADED_WEIGHT_CLASS = call.greet_class
        \/ /\ ~call.plot_vw_class /\ r.GREET_CLASS = call.greet_class

\* C9 as stated: in the five histogram functions a record is selected
\* exactly when the required columns are present, PPASSENGERS is missing
\* or 0, and it passes the range, commodity and region cuts (strictly above
\* the thresholds).
C9_SelectedExactlyByCuts ==
    Plotted =>
        \A k \in DOMAIN call.df :
            ret.cSelection[k] <=>
                /\ \A c \in C9_RequiredColumns : call.df[k][c] # {}
                /\ C9_Cuts(call.df[k])

\* C9, amended: a record is selected exactly when the required columns
\* are present (in plot_mpg_times_payload_hist: WEIGHTAVG strictly above
\* 8500 instead of merely present), PPASSENGERS is missing or 0, it passes
\* the range, commodity and region cuts strictly above the thresholds, and,
\* in plot_payload_hist, greet_class is 'all' or the record's class column
\* equals greet_class; a record whose percentage equals the threshold is
\* excluded.
C9_SelectedExactlyByCutsAndClass ==
    Plotted =>
        \A k \in DOMAIN call.df :
            ret.cSelection[k] <=>
                /\ \A c \in C9_RequiredColumns : call.df[k][c] # {}
                /\ call.fn = "plot_mpg_times_payload_hist" =>
                       C9_Above(call.df[k].WEIGHTAVG, 8500)
                /\ C9_Cuts(call.df[k])
                /\ C9_ClassCut(call.df[k])

\* a record that differs from a selected one only by a commodity percentage
\* equal to the threshold is left out by plot_payload_hist with a class cut
C9_Witness ==
    /\ Plotted /\ call.fn = "plot_payload_hist"
    /\ call.greet_class = {1} /\ call.commodity = "PCOAL"
    /\ call.commodity_threshold = Threshold
    /\ call.df[1] = [BaseRecord EXCEPT !.PCOAL = {Threshold}]
    /\ ~ret.cSelection[1]

(***************************************************************************)
(* Contents and uncertainties of the histograms (checked under             *)
(* SpecHistogram).                                                         *)
(***************************************************************************)
\* a histogram was computed by the call
Binned == Plotted /\ ret.n # <<>>

\* the binned quantity of a record: {} when it is not a number
C10_Value(r) ==
    IF call.fn = "plot_greet_class_hist" THEN {RatInt(v) : v \in r.GREET_CLASS}
    ELSE IF call.fn = "plot_age_hist" THEN {RatInt(v - 1) : v \in r.ACQUIREYEAR}
    ELSE IF call.fn = "plot_gvw_hist" THEN {RatInt(v) : v \in r.WEIGHTAVG}
    ELSE IF call.fn = "plot_payload_hist"
    THEN {Rat(g - e, LbPerTon) : g \in r.WEIGHTAVG, e \in r.WEIGHTEMPTY}
    ELSE {Rat(m * (g - e), LbPerTon) : m \in r.MPG, g \in r.WEIGHTAVG, e \in r.WEIGHTEMPTY}

C10_Weight(r) == IF call.weight_by_tm THEN The(r.TON_MILES) ELSE 1

C10_Falls(r, edges, b) ==
    \E x \in C10_Value(r) :
        /\ x[1] * edges[b][2] >= edges[b][1] * x[2]
        /\ \/ x[1] * edges[b + 1][2] < edges[b + 1][1] * x[2]
           \/ b = Len(edges) - 1 /\ x = edges[b + 1]

C10_Positive(r) == \E x \in C10_Value(r) : x[1] > 0

\* the sub-histogram i of the stacked plots holds the records of fuel i
\* (plot_greet_class_hist) or of GREET class i (plot_age_hist)
C10_InStack(r, i) ==
    IF call.fn = "plot_greet_class_hist" THEN r.FUEL = {i} ELSE r.GREET_CLASS = {i}

\* the sum of the weights (power 1) or squared weights (power 2) of the
\* records of the table marked in the mask 'counted' that fall in bin b
C10_BinSum(counted, edges, b, power) ==
    SumSeq([k \in DOMAIN call.df |->
               IF counted[k] /\ C10_Falls(call.df[k], edges, b)
               THEN IF power = 1 THEN C10_Weight(call.df[k])
                    ELSE C10_Weight(call.df[k]) * C10_Weight(call.df[k])
               ELSE 0])

C10_Sums(h, counted) ==
    /\ h.bins_err = h.bins
    /\ \A b \in DOMAIN h.n :
          /\ h.n[b] = C10_BinSum(counted, h.bins, b, 1)
          /\ h.n_err2[b] = C10_BinSum(counted, h.bins, b, 2)

C10_StackSums(selected) ==
    \A i \in DOMAIN ret.stack :
        C10_Sums(ret.stack[i],
                 [k \in DOMAIN call.df |-> selected[k] /\ C10_InStack(call.df[k], i)])

\* C10 as stated: in every histogram the content of a bin is the sum of the
\* weights of the selected records falling in the bin, and the squared
\* uncertainty is the sum of their squared weights, with the same edges.
C10_BinsSumSelectedWeights ==
    Binned => C10_Sums(ret, ret.cSelection) /\ C10_StackSums(ret.cSelection)

\* C10, amended: the same, where in plot_mpg_times_payload_hist only the
\* selected records with mpg times payload strictly positive are binned
\* (a selected record with value 0 is in no bin, not even one starting at 0).
C10_BinsSumBinnedWeights ==
    Binned =>
        /\ C10_Sums(ret, [k \in DOMAIN call.df |->
                             /\ ret.cSelection[k]
                             /\ call.fn = "plot_mpg_times_payload_hist" =>
                                    C10_Positive(call.df[k])])
        /\ C10_StackSums(ret.cSelection)

\* plot_mpg_times_payload_hist saved a histogram of ton-mile weights with a
\* bin whose uncertainty differs from its content, after dropping a
\* selected record
C10_Witness ==
    /\ Binned /\ call.fn = "plot_mpg_times_payload_hist" /\ saved # <<>>
    /\ call.weight_by_tm
    /\ Len(ret.data) < Len(Kept(ret.cSelection))
    /\ \E b \in DOMAIN ret.n : ret.n[b] > 1 /\ ret.n_err2[b] > ret.n[b]

(***************************************************************************)
(* Unweighted histograms and the '_unweighted' marker of the file names    *)
(* (checked under SpecHistogram).                                          *)
(***************************************************************************)
C11_Count(counted, edges, b) ==
    Cardinality({k \in DOMAIN call.df : counted[k] /\ C10_Falls(call.df[k], edges, b)})

C11_Counts(h, counted) ==
    \A b \in DOMAIN h.n :
        h.n[b] = C11_Count(counted, h.bins, b) /\ h.n_err2[b] = h.n[b]

C11_StackCounts ==
    \A i \in DOMAIN ret.stack :
        C11_Counts(ret.stack[i],
                   [k \in DOMAIN call.df |->
                       ret.cSelection[k] /\ C10_InStack(call.df[k], i)])

C11_NonEmpty(part) == part # ""

\* the file name without its extension ends with '_unweighted'
C11_Suffixed(file) ==
    LET stem == SelectSeq(SubSeq(file, 1, Len(file) - 1), C11_NonEmpty)
    IN  stem[Len(stem)] = "_unweighted"

C11_Marked(file) == \E i \in DOMAIN file : file[i] = "_unweighted"

\* the binned records: the selected ones, of strictly positive value in
\* plot_mpg_times_payload_hist
C11_BinnedRecords ==
    [k \in DOMAIN call.df |->
        /\ ret.cSelection[k]
        /\ call.fn = "plot_mpg_times_payload_hist" => C10_Positive(call.df[k])]

\* C11 as stated: with weight_by_tm=False every weight is 1, every bin
\* content is the number of selected records in the bin and the squared
\* uncertainty is that count; the saved file names end with '_unweighted'
\* exactly when weight_by_tm is False.
C11_UnweightedCountsSelected ==
    /\ Binned /\ ~call.weight_by_tm =>
          /\ \A j \in DOMAIN ret.weights_all : ret.weights_all[j] = 1
          /\ C11_Counts(ret, ret.cSelection)
          /\ C11_StackCounts
    /\ Plotted =>
          \A i \in DOMAIN saved : C11_Suffixed(saved[i]) <=> ~call.weight_by_tm

\* C11, amended: with weight_by_tm=False every weight is 1, every bin
\* content is the number of binned records in the bin (the selected
\* records, in plot_mpg_times_payload_hist only those of strictly positive
\* mpg times payload) and the squared uncertainty is that count; the saved
\* file names contain '_unweighted' exactly when weight_by_tm is False, at
\* the end of the name except in plot_mpg_times_payload_hist, where
\* binning_info and, with density set, '_density' follow it.
C11_UnweightedCountsBinned ==
    /\ Binned /\ ~call.weight_by_tm =>
          /\ \A j \in DOMAIN ret.weights_all : ret.weights_all[j] = 1
          /\ C11_Counts(ret, C11_BinnedRecords)
          /\ C11_StackCounts
    /\ Plotted =>
          \A i \in DOMAIN saved :
              /\ C11_Marked(saved[i]) <=> ~call.weight_by_tm
              /\ C11_Suffixed(saved[i]) <=>
                     /\ ~call.weight_by_tm
                     /\ call.fn = "plot_mpg_times_payload_hist" =>
                            call.binning_info = "" /\ ~call.density

\* an unweighted plot_mpg_times_payload_hist call saved its figure after
\* binning a record of ton-miles other than 1 and dropping a selected record
C11_Witness ==
    /\ Binned /\ ~call.weight_by_tm /\ saved # <<>>
    /\ call.fn = "plot_mpg_times_payload_hist"
    /\ Len(ret.data) < Len(Kept(ret.cSelection))
    /\ \E k \in DOMAIN call.df : ret.cSelection[k] /\ call.df[k].TON_MILES # {1}
    /\ \E b \in DOMAIN ret.n : ret.n[b] >= 1

(***************************************************************************)
(* get_bin_centroids as a function of its arguments.                       *)
(***************************************************************************)
CentroidCalls ==
    UNION {{[fn |-> "get_bin_centroids", data |-> d, weights |-> w, bins |-> b] :
               d \in [1..n -> {<<0, 1>>, <<1, 2>>, <<1, 1>>, <<3, 2>>, <<2, 1>>}],
               w \in [1..n -> {0, 1, 2}],
               b \in {<<RatInt(0), RatInt(1)>>, <<RatInt(0), RatInt(1), RatInt(2)>>,
                      <<Rat(1, 2), Rat(3, 2)>>}} : n \in 0..MaxRecords}

InitCentroids ==
    /\ call \in CentroidCalls
    /\ pc = "call"
    /\ ret = <<>>
    /\ raised = NoException
    /\ stdout = <<>>
    /\ saved = <<>>
    /\ df_lca_dict = EmptyDict
    /\ disk = NoEnv

GetBinCentroids ==
    /\ pc = "call" /\ call.fn = "get_bin_centroids"
    /\ IF CentroidWeightsSumToZero(call.data, call.weights, call.bins)
       THEN Raises("ZeroDivisionError", <<>>)
       ELSE Returns(get_bin_centroids(call.data, call.weights, call.bins), <<>>)
    /\ UNCHANGED <<call, disk, saved, df_lca_dict>>

NextCentroids == GetBinCentroids

SpecCentroids == InitCentroids /\ [][NextCentroids]_vars

\* the records of the call whose data lies in [bins[i], bins[i+1])
C12_InBin(i) ==
    {j \in DOMAIN call.data :
        /\ RatLeq(call.bins[i], call.data[j])
        /\ RatLt(call.data[j], call.bins[i + 1])}

C12_WeightSum(i) ==
    SumSeq([j \in DOMAIN call.data |-> IF j \in C12_InBin(i) THEN call.weights[j] ELSE 0])

C12_WeightedSum(i) ==
    RatSum([j \in DOMAIN call.data |->
               IF j \in C12_InBin(i)
               THEN RatMul(call.data[j], RatInt(call.weights[j])) ELSE <<0, 1>>])

C12_Values ==
    /\ Len(ret) = Len(call.bins) - 1
    /\ \A i \in DOMAIN ret :
          IF C12_InBin(i) = {}
          THEN RatAdd(ret[i], ret[i]) = RatAdd(call.bins[i], call.bins[i + 1])
          ELSE /\ RatMul(ret[i], RatInt(C12_WeightSum(i))) = C12_WeightedSum(i)
               /\ C12_WeightSum(i) > 0 =>
                      RatLeq(call.bins[i], ret[i]) /\ RatLt(ret[i], call.bins[i + 1])

\* C12 as stated: get_bin_centroids returns len(bins)-1 values in order,
\* the bin centre for a bin without data and otherwise the weighted average
\* of the data in [bins[i], bins[i+1]), which lies in that interval for
\* non-negative weights of positive sum.
C12_CentroidPerBin ==
    Done("get_bin_centroids") => raised = NoException /\ C12_Values

\* C12, amended: the same when in every bin containing data the weights
\* have a non-zero sum; when some bin contains data whose weights sum to
\* zero the function raises ZeroDivisionError and returns nothing.
C12_CentroidPerBinOrZeroDivision ==
    Done("get_bin_centroids") =>
        IF \E i \in 1..(Len(call.bins) - 1) : C12_InBin(i) # {} /\ C12_WeightSum(i) = 0
        THEN raised = "ZeroDivisionError"
        ELSE raised = NoException /\ C12_Values

\* a call returned with an empty bin and a bin of two different values of
\* different weights, one of them zero
C12_Witness ==
    /\ Done("get_bin_centroids") /\ raised = NoException
    /\ \E i \in DOMAIN ret : C12_InBin(i) = {}
    /\ \E i \in DOMAIN ret :
          \E j, k \in C12_InBin(i) :
              /\ call.data[j] # call.data[k]
              /\ call.weights[j] = 0 /\ call.weights[k] > 0

(***************************************************************************)
(* The two forms of binning (checked under SpecHistogram).                 *)
(***************************************************************************)
\* C13: plot_mpg_times_payload_hist, given a number of bins or an array of
\* edges and a non-empty selection, computes the histogram and the bin
\* centroids and runs to completion without raising.
C13_BothBinningFormsComplete ==
    /\ Plotted /\ call.fn = "plot_mpg_times_payload_hist"
    /\ \E k \in DOMAIN call.df : ret.cSelection[k]
    => /\ raised = NoException
       /\ Len(ret.n) = Len(ret.bins) - 1
       /\ Len(ret.centroids) = Len(ret.bins) - 1
       /\ saved # <<>>

(***************************************************************************)
(* The guard on an empty selection (checked under SpecSelection).          *)
(***************************************************************************)
C15_NothingSelected ==
    /\ Plotted /\ call.fn \in {"plot_payload_hist", "plot_mpg_times_payload_hist"}
    /\ \A k \in DOMAIN call.df : ~ret.cSelection[k]

\* C15: when no record is selected, plot_payload_hist and
\* plot_mpg_times_payload_hist print the 'No events in selection' error and
\* return without computing weights, opening a figure or saving a file.
C15_NoEventsReturnsEarly ==
    C15_NothingSelected =>
        /\ stdout = <<"ERROR No events in selection. Returning without plotting.">>
        /\ raised = NoException
        /\ ret.calls = <<>> /\ ret.weights_all = <<>> /\ ret.n = <<>>
        /\ saved = <<>>

\* plot_mpg_times_payload_hist was called on a record that fails only the
\* commodity cut and printed the error
C15_Witness ==
    /\ C15_NothingSelected /\ call.fn = "plot_mpg_times_payload_hist"
    /\ call.df[1] = [BaseRecord EXCEPT !.PCOAL = {0}]
    /\ stdout # <<>>

(***************************************************************************)
(* add_unloaded_vehicle_weight_class.  A truck is a record with the cells  *)
(* WEIGHTAVG, WEIGHTEMPTY and GREET_CLASS and the flag BASIC, the value of *)
(* ViusTools.make_basic_selections for it.  The class keys looked up in    *)
(* InfoObjects.GREET_classes_dict are kept as the class names.             *)
(***************************************************************************)
greet_bins == <<0, 8500, 19500, 33000, 1000000000>>

GreetClassNames == <<"Light-duty", "Light GVW", "Medium GVW", "Heavy GVW">>

make_basic_selections(df) == Eager([k \in DOMAIN df |-> df[k].BASIC])

\* np.histogram(values, bins=greet_bins) for integer values
GreetCounts(values) ==
    Eager([b \in 1..4 |->
        Cardinality({j \in DOMAIN values :
            /\ greet_bins[b] <= values[j]
            /\ values[j] < greet_bins[b + 1] \/ (b = 4 /\ values[j] = greet_bins[5])})])

\* scipy.stats.mstats.mquantiles(a, prob) with the default alphap = betap =
\* 0.4, for one probability p: aleph = n*p + 0.4 + 0.2*p,
\* k = floor(clip(aleph, 1, n-1)), gamma = clip(aleph - k, 0, 1) and the
\* result (1 - gamma)*x[k-1] + gamma*x[k] on the sorted data x[0..n-1]
mquantile(a, p) ==
    LET x == SortSeq(a, LAMBDA u, v : u < v)
        n == Len(a)
        aleph == RatAdd(RatMul(RatInt(n), p), RatAdd(<<2, 5>>, RatMul(<<1, 5>>, p)))
        clipped == IF RatLt(RatInt(n - 1), aleph) \/ n - 1 < 1 THEN RatInt(n - 1)
                   ELSE IF RatLt(aleph, RatInt(1)) THEN RatInt(1) ELSE aleph
        k == clipped[1] \div clipped[2]
        d == RatSub(aleph, RatInt(k))
        gamma == IF RatLt(d, RatInt(0)) THEN RatInt(0)
                 ELSE IF RatLt(RatInt(1), d) THEN RatInt(1) ELSE d
        below == IF k = 0 THEN x[n] ELSE x[k]       \* x[k-1], x[-1] when k is 0
        above == x[k + 1]                             \* x[k]
    IN  RatAdd(RatMul(RatSub(RatInt(1), gamma), RatInt(below)),
               RatMul(gamma, RatInt(above)))

\* the class of a truck of unloaded weight w for the edges
\* bin_edges_equivalent, by the four df.loc assignments
UnloadedClass(w, edges) ==
    IF RatLeq(edges[4], RatInt(w)) THEN "Heavy GVW"
    ELSE IF RatLeq(edges[3], RatInt(w)) THEN "Medium GVW"
    ELSE IF RatLeq(edges[2], RatInt(w)) THEN "Light GVW"
    ELSE "Light-duty"

bin_edges_equivalent(df) ==
    LET basic == make_basic_selections(df)
        cBasic == Eager([k \in DOMAIN df |-> basic[k] /\ ~IsNa(df[k].GREET_CLASS)])
        kept == Kept(cBasic)
        n == GreetCounts(Eager([j \in DOMAIN kept |-> The(df[kept[j]].WEIGHTAVG)]))
        quantiles == Eager([i \in 1..5 |->
                         Rat(SumSeq(SubSeq(n, 1, i - 1)), Len(kept))])
        empty == Eager([k \in DOMAIN df |-> The(df[k].WEIGHTEMPTY)])
    IN  Eager([i \in 1..5 |-> mquantile(empty, quantiles[i])])

add_unloaded_vehicle_weight_class(df) ==
    LET edges == bin_edges_equivalent(df)
    IN  Eager([k \in DOMAIN df |->
            [f \in DOMAIN df[k] \cup {"UNLOADED_WEIGHT_CLASS"} |->
                IF f = "UNLOADED_WEIGHT_CLASS"
                THEN {UnloadedClass(The(df[k].WEIGHTEMPTY), edges)}
                ELSE df[k][f]]])

Trucks ==
    {[BASIC |-> s[1], GREET_CLASS |-> s[2], WEIGHTAVG |-> {g}, WEIGHTEMPTY |-> {e}] :
        s \in {<<TRUE, {1}>>, <<TRUE, {}>>, <<FALSE, {1}>>},
        g \in {5000, 10000, 20000, 40000}, e \in {3000, 6000, 12000}}

\* tables whose first truck passes the basic selection with a GREET class,
\* so that the fractions are defined
TruckTables ==
    UNION {{df \in [1..n -> Trucks] : df[1].BASIC /\ df[1].GREET_CLASS # {}} :
              n \in 1..MaxRecords}

InitUnloaded ==
    /\ \E df \in TruckTables : call = [fn |-> "add_unloaded_vehicle_weight_class", df |-> df]
    /\ pc = "call"
    /\ ret = <<>>
    /\ raised = NoException
    /\ stdout = <<>>
    /\ saved = <<>>
    /\ df_lca_dict = EmptyDict
    /\ disk = NoEnv

AddUnloadedVehicleWeightClass ==
    /\ pc = "call" /\ call.fn = "add_unloaded_vehicle_weight_class"
    /\ Returns(add_unloaded_vehicle_weight_class(call.df), <<>>)
    /\ UNCHANGED <<call, disk, saved, df_lca_dict>>

NextUnloaded == AddUnloadedVehicleWeightClass

SpecUnloaded == InitUnloaded /\ [][NextUnloaded]_vars

\* the trucks counted in the GREET fractions: the basic selection with a
\* GREET class
C14_Counted == {k \in DOMAIN call.df : call.df[k].BASIC /\ call.df[k].GREET_CLASS # {}}

C14_InGreetBin(k, b) ==
    \E g \in call.df[k].WEIGHTAVG :
        /\ greet_bins[b] <= g
        /\ g < greet_bins[b + 1] \/ (b = 4 /\ g = greet_bins[5])

\* C14: after add_unloaded_vehicle_weight_class the fraction of records in
\* each unloaded vehicle weight class equals the fraction of records in the
\* corresponding GREET GVW class (WEIGHTAVG in [0,8500), [8500,19500),
\* [19500,33000), [33000,1e9]).
C14_SameFractionPerClass ==
    Done("add_unloaded_vehicle_weight_class") =>
        \A b \in 1..4 :
            Cardinality({k \in DOMAIN ret :
                            ret[k].UNLOADED_WEIGHT_CLASS = {GreetClassNames[b]}})
                * Cardinality(C14_Counted)
            = Cardinality({k \in C14_Counted : C14_InGreetBin(k, b)}) * Len(ret)

\* ---------------------------------------------------------------------
\* IdentifyFacilitiesInRadius.py: identify_points_in_circle
\* ---------------------------------------------------------------------

\* A GeoDataFrame of points is [crs, rows]: crs is {} when no coordinate
\* reference system is set, rows is a sequence of [OBJECTID, geometry] with
\* geometry {} for a missing geometry and {<<x, y>>} for a point whose
\* coordinates are rationals in the units of crs.  A coordinate in EPSG:3857
\* is MercatorScale times the coordinate in EPSG:4326.
MercatorScale == 2

\* gpd_points.to_crs("EPSG:4326") without the transformation
to_crs_KeepCoordinates(gdf) == [gdf EXCEPT !.crs = {"EPSG:4326"}]

\* gpd_points.to_crs("EPSG:4326"), for a frame that has a crs
to_crs(gdf) ==
    [crs |-> {"EPSG:4326"},
     rows |-> Eager([k \in DOMAIN gdf.rows |->
                 [gdf.rows[k] EXCEPT !.geometry =
                     IF gdf.crs = {"EPSG:4326"} THEN @
                     ELSE {<<RatDiv(xy[1], RatInt(MercatorScale)),
                             RatDiv(xy[2], RatInt(MercatorScale))>> : xy \in @}]])]

\* the predicate of the join: the point touches the closed disc
intersects(geometry, circle) ==
    \E xy \in geometry :
        RatLeq(RatAdd(RatMul(RatSub(xy[1], RatInt(circle.center[1])),
                             RatSub(xy[1], RatInt(circle.center[1]))),
                      RatMul(RatSub(xy[2], RatInt(circle.center[2])),
                             RatSub(xy[2], RatInt(circle.center[2])))),
               RatInt(circle.r2))

RECURSIVE Matches(_, _, _, _)
Matches(row, k, right, j) ==
    IF j > Len(right) THEN <<>>
    ELSE (IF intersects(row.geometry, right[j])
          THEN <<[index |-> k, OBJECTID |-> row.OBJECTID, geometry |-> row.geometry,
                  index_right |-> j]>>
          ELSE <<>>) \o Matches(row, k, right, j + 1)

\* gpd.sjoin(left, right): inner join on "intersects", one row per pair of a
\* row of left and a geometry of right, in the order of left
RECURSIVE sjoin(_, _, _)
sjoin(left, right, k) ==
    IF k > Len(left.rows) THEN <<>>
    ELSE Matches(left.rows[k], k, right, 1) \o sjoin(left, right, k + 1)

identify_points_in_circle(gpd_circle, gpd_points) ==
    IF gpd_points.crs = {}
    THEN [raised |-> "ValueError", value |-> <<>>]
    ELSE [raised |-> NoException, value |-> sjoin(to_crs(gpd_points), gpd_circle, 1)]

PointGeometries == {{}} \cup {{<<RatInt(x), RatInt(y)>>} : x, y \in {0, 1, 2}}

\* the circle made by make_circle: one geometry, in EPSG:4326
Circles == {<<[center |-> c, r2 |-> r]>> : c \in {<<0, 0>>, <<1, 1>>}, r \in {0, 1}}

PointFrames ==
    UNION {{[crs |-> c, rows |-> Eager([k \in 1..n |-> [OBJECTID |-> 100 + k, geometry |-> g[k]]])] :
                c \in {{}, {"EPSG:4326"}, {"EPSG:3857"}}, g \in [1..n -> PointGeometries]} :
              n \in 0..MaxRecords}

InitCircle ==
    /\ \E c \in Circles, f \in PointFrames :
           call = [fn |-> "identify_points_in_circle", gpd_circle |-> c, gpd_points |-> f]
    /\ pc = "call"
    /\ ret = <<>>
    /\ raised = NoException
    /\ stdout = <<>>
    /\ saved = <<>>
    /\ df_lca_dict = EmptyDict
    /\ disk = NoEnv

IdentifyPointsInCircle ==
    /\ pc = "call" /\ call.fn = "identify_points_in_circle"
    /\ \E r \in {identify_points_in_circle(call.gpd_circle, call.gpd_points)} :
           IF r.raised = NoException THEN Returns(r.value, <<>>)
           ELSE Raises(r.raised, <<>>)
    /\ UNCHANGED <<call, disk, saved, df_lca_dict>>

NextCircle == IdentifyPointsInCircle

SpecCircle == InitCircle /\ [][NextCircle]_vars

\* the place of input row k in degrees, whatever the units it is given in
C16_Place(k) ==
    {<<RatDiv(xy[1], RatInt(IF call.gpd_points.crs = {"EPSG:3857"} THEN MercatorScale ELSE 1)),
       RatDiv(xy[2], RatInt(IF call.gpd_points.crs = {"EPSG:3857"} THEN MercatorScale ELSE 1))>> :
         xy \in call.gpd_points.rows[k].geometry}

\* input row k lies in the closed disc
C16_Inside(k) ==
    \E xy \in C16_Place(k) :
        LET dx == RatSub(xy[1], RatInt(call.gpd_circle[1].center[1]))
            dy == RatSub(xy[2], RatInt(call.gpd_circle[1].center[2]))
        IN  RatLeq(RatAdd(RatMul(dx, dx), RatMul(dy, dy)), RatInt(call.gpd_circle[1].r2))

C16_ExactlyTheInside ==
    /\ \A i \in DOMAIN ret :
           /\ ret[i].index \in DOMAIN call.gpd_points.rows
           /\ ret[i].OBJECTID = call.gpd_points.rows[ret[i].index].OBJECTID
           /\ ret[i].geometry = C16_Place(ret[i].index)
           /\ C16_Inside(ret[i].index)
    /\ \A k \in DOMAIN call.gpd_points.rows :
           Cardinality({i \in DOMAIN ret : ret[i].index = k}) = IF C16_Inside(k) THEN 1 ELSE 0

\* identify_points_in_circle returns exactly the rows of the input that lie
\* in the circle, each once, for every input
C16_ReturnsPointsInCircle ==
    Done("identify_points_in_circle") => raised = NoException /\ C16_ExactlyTheInside

\* C16: when gpd_points has a coordinate reference system,
\* identify_points_in_circle returns exactly the rows of the input that lie
\* in the circle: every returned row is an input row in the circle, every
\* input row in the circle is returned exactly once and no row outside it is
\* returned; without a coordinate reference system it raises ValueError.
C16_ReturnsPointsInCircleWithCrs ==
    Done("identify_points_in_circle") =>
        IF call.gpd_points.crs = {}
        THEN raised = "ValueError" /\ ret = <<>>
        ELSE raised = NoException /\ C16_ExactlyTheInside

\* points given in EPSG:3857, one returned and one left out
C16_Witness ==
    /\ Done("identify_points_in_circle")
    /\ call.gpd_points.crs = {"EPSG:3857"}
    /\ Len(ret) = 1
    /\ Len(call.gpd_points.rows) = 2
    /\ \E k \in DOMAIN call.gpd_points.rows :
           call.gpd_points.rows[k].geometry # {} /\ ~C16_Inside(k)

====
